---------------------------- MODULE Spec2Model ----------------------------
(***************************************************************************)
(* A model of the dataset tag editor's core (src/dataset-editor/dataset.py):*)
(* DatasetItem (one image and its tag sidecar file) and Dataset (the       *)
(* ordered items found by scanning a directory), together with the part of *)
(* the file system they read and write; and of the editor built on it      *)
(* (src/dataset_editor/ui.py): UIDataset, its handlers and its autotag.    *)
(*                                                                         *)
(* Text is modelled as a sequence of one-character strings, so that        *)
(* str.strip, str.split(',') and ', '.join are computed character by       *)
(* character.  A path is the sequence <<stem, suffix, ...>> of its file    *)
(* name's parts ("a.png.deleted" is <<"a", ".png", ".deleted">>).          *)
(***************************************************************************)
EXTENDS Integers, Sequences, FiniteSets

\* ------------------------------------------------------------------ bounds

\* Longest argument list handed to a tag mutator.
MaxArgLen == 2

\* Longest search and replace lists handed to replace_tags.
MaxReplaceLen == 1

\* Longest raw tag list deduplicate is applied to in SpecDedup.
MaxRawLen == 3

\* --------------------------------------------------------------- sequences

RECURSIVE SeqsUpTo(_, _)
\* All sequences over S of length at most n.
SeqsUpTo(S, n) ==
    IF n = 0 THEN {<<>>}
    ELSE LET shorter == SeqsUpTo(S, n - 1)
         IN  shorter \cup {Append(s, x) : s \in {t \in shorter : Len(t) = n - 1}, x \in S}

Range(s) == {s[k] : k \in DOMAIN s}

\* ------------------------------------------------------------------- text

Space == " "
Comma == ","

RECURSIVE lstrip(_)
lstrip(s) == IF s # <<>> /\ Head(s) = Space THEN lstrip(Tail(s)) ELSE s

RECURSIVE rstrip(_)
rstrip(s) ==
    IF s # <<>> /\ s[Len(s)] = Space THEN rstrip(SubSeq(s, 1, Len(s) - 1)) ELSE s

\* str.strip
strip(s) == rstrip(lstrip(s))

RECURSIVE split_comma(_)
\* text.split(','): the pieces between commas; a text of n commas has n + 1
\* pieces, empty ones included.
split_comma(text) ==
    IF \A k \in DOMAIN text : text[k] # Comma THEN <<text>>
    ELSE LET k == CHOOSE j \in DOMAIN text :
                     /\ text[j] = Comma
                     /\ \A m \in 1..(j - 1) : text[m] # Comma
         IN  <<SubSeq(text, 1, k - 1)>> \o split_comma(SubSeq(text, k + 1, Len(text)))

\* map(str.strip, xs)
map_strip(xs) == [k \in DOMAIN xs |-> strip(xs[k])]

\* filter(None, xs): the non-empty strings of xs
filter_nonempty(xs) == SelectSeq(xs, LAMBDA x : x # <<>>)

split_tags(text) == filter_nonempty(map_strip(split_comma(text)))

RECURSIVE join_tags(_)
\* ', '.join(tags); trailing_comma keeps its default, False, in every call
\* the core makes.
join_tags(tags) ==
    IF tags = <<>> THEN <<>>
    ELSE IF Len(tags) = 1 THEN tags[1]
    ELSE tags[1] \o <<Comma, Space>> \o join_tags(Tail(tags))

RECURSIVE dict_fromkeys(_)
\* list(dict.fromkeys(xs)): the first occurrence of every value, in order.
dict_fromkeys(xs) ==
    IF xs = <<>> THEN <<>>
    ELSE LET init == dict_fromkeys(SubSeq(xs, 1, Len(xs) - 1))
             x == xs[Len(xs)]
         IN  IF x \in Range(init) THEN init ELSE Append(init, x)

\* ------------------------------------------------------------ file system

VARIABLES
    os_name,    \* "posix" or "nt": decides what Path.rename does to an existing target
    fs,         \* the directory: path -> file
    items,      \* Dataset.items, each a DatasetItem record
    persisted,  \* history: per item, the tag list last loaded from or written to its sidecar
    last,       \* history: the operation that ran last, its outcome and the state it ran in
    ui          \* the editor: the UIDataset's counter, its dialogs, autotag, the Save handlers

vars == <<os_name, fs, items, persisted, last, ui>>

\* The editor before "Load dataset" was first used (and the core used without
\* the editor): no UIDataset, no handler on the Save button, no autotag running.
\*   loaded          a UIDataset has been loaded; items, persisted and
\*                   selected_cnt are those of the one loaded last
\*   selected_cnt    UIDataset.selected_cnt of the dataset loaded last
\*   earlier         the UIDatasets loaded before, oldest first, whose flush is
\*                   still a handler of the Save button
\*   autotag         where the autotag coroutine is: "idle" or "waiting" (for the tool)
\*   blacklist       the blacklist_tags autotag was called with
\*   loading         ui_loading_dialog is open
\*   client_loading  the browser shows the loading dialog
NoUI ==
    [loaded |-> FALSE, selected_cnt |-> 0, earlier |-> <<>>, autotag |-> "idle",
     blacklist |-> <<>>, loading |-> FALSE, client_loading |-> FALSE]

Stems == {"a", "b"}

\* Dataset.read's extension list, in its order.
ImgExts == <<".jpg", ".jpeg", ".png">>

\* Dataset.tags_file_ext
tags_file_ext == ".txt"

BasePaths == {<<s, e>> : s \in Stems, e \in Range(ImgExts) \cup {tags_file_ext}}

AllPaths == BasePaths \cup {Append(p, ".deleted") : p \in BasePaths}

NoFile == [kind |-> "none", data |-> <<>>]

TextFile(text) == [kind |-> "text", data |-> text]

\* An image file; data names the picture, so that a moved file is told from another.
ImageFile(p) == [kind |-> "image", data |-> p]

\* PurePath.suffix: the last suffix of the file name, if any
suffix(p) == IF Len(p) > 1 THEN <<p[Len(p)]>> ELSE <<>>

\* PurePath.with_suffix(sfx): the last suffix replaced by sfx (added when there is none)
with_suffix(p, sfx) == (IF Len(p) > 1 THEN SubSeq(p, 1, Len(p) - 1) ELSE p) \o sfx

\* A world: what an operation reads and changes, and whether it has raised.
World == [fs |-> fs, items |-> items, persisted |-> persisted, exc |-> FALSE]

exists(w, p) == w.fs[p].kind # "none"

read_text(w, p) == w.fs[p].data

write_text(w, p, text) == [w EXCEPT !.fs[p] = TextFile(text)]

\* Path.touch(): creates an empty file; an existing file keeps its content
touch(w, p) == IF exists(w, p) THEN w ELSE [w EXCEPT !.fs[p] = TextFile(<<>>)]

\* Path.rename(target): FileNotFoundError without the source; an existing target is
\* replaced silently on POSIX and raises FileExistsError on Windows.
rename(w, src, dst) ==
    IF ~exists(w, src) THEN [w EXCEPT !.exc = TRUE]
    ELSE IF exists(w, dst) /\ os_name = "nt" THEN [w EXCEPT !.exc = TRUE]
    ELSE [w EXCEPT !.fs = [p \in AllPaths |->
                              IF p = dst THEN w.fs[src]
                              ELSE IF p = src THEN NoFile
                              ELSE w.fs[p]]]

\* Path.unlink(), which raises FileNotFoundError when the file is absent.
unlink_strict(w, p) ==
    IF exists(w, p) THEN [w EXCEPT !.fs[p] = NoFile] ELSE [w EXCEPT !.exc = TRUE]

\* Path.unlink(missing_ok=True)
unlink(w, p) == [w EXCEPT !.fs[p] = NoFile]

\* ------------------------------------------------------------ DatasetItem

on_changed(w, i) == [w EXCEPT !.items[i].dirty = TRUE]

on_reset(w, i) == [w EXCEPT !.items[i].dirty = FALSE]

on_selected(w, i, state) == [w EXCEPT !.items[i].selected = state]

\* UIDatasetItem.on_selected: the parent's counter moves by state - self.selected
\* (booleans as 0 and 1) before the item takes the state.
UIDatasetItem_on_selected(w, i, state) ==
    on_selected([w EXCEPT !.selected_cnt = @ + (IF state THEN 1 ELSE 0)
                                             - (IF w.items[i].selected THEN 1 ELSE 0)],
                i, state)

\* self.on_selected(state): the method of the item's class, which is
\* UIDatasetItem for the items of a UIDataset (a world with a selected_cnt).
self_on_selected(w, i, state) ==
    IF "selected_cnt" \in DOMAIN w THEN UIDatasetItem_on_selected(w, i, state)
    ELSE on_selected(w, i, state)

\* flush, were it to write only a dirty item, whatever force says.
flush_ignoring_force(w, i, force) ==
    LET it == w.items[i]
        w1 == IF it.dirty
              THEN [write_text(w, it.tags_file, join_tags(it.tags))
                        EXCEPT !.persisted[i] = it.tags]
              ELSE w
    IN  on_reset(w1, i)

flush(w, i, force) ==
    LET it == w.items[i]
        w1 == IF it.dirty \/ force
              THEN [write_text(w, it.tags_file, join_tags(it.tags))
                        EXCEPT !.persisted[i] = it.tags]
              ELSE w
    IN  on_reset(w1, i)

reload(w, i) ==
    LET it == w.items[i]
        w1 == IF exists(w, it.tags_file)
              THEN [w EXCEPT !.items[i].tags = split_tags(read_text(w, it.tags_file))]
              ELSE [touch(w, it.tags_file) EXCEPT !.items[i].tags = <<>>]
    IN  on_reset([w1 EXCEPT !.persisted[i] = w1.items[i].tags], i)

delete(w, i, soft) ==
    LET it == w.items[i]
        w1 == [w EXCEPT !.items[i].deleted = TRUE]
    IN  IF soft
        THEN LET w2 == rename(w1, it.img_file,
                              with_suffix(it.img_file, suffix(it.img_file) \o <<".deleted">>))
             IN  IF w2.exc THEN w2
                 ELSE rename(w2, it.tags_file,
                             with_suffix(it.tags_file, suffix(it.tags_file) \o <<".deleted">>))
        ELSE LET w2 == unlink(w1, it.img_file)
             IN  IF w2.exc THEN w2 ELSE unlink(w2, it.tags_file)

\* select_invert, were it to select the item whatever its state.
select_invert_selecting(w, i) == self_on_selected(w, i, TRUE)

select_invert(w, i) == self_on_selected(w, i, ~w.items[i].selected)

select_set(w, i, value) == self_on_selected(w, i, value)

\* deduplicate, were it to drop the duplicates before it strips the tags.
deduplicate_before_strip(w, i) ==
    LET old_len == Len(w.items[i].tags)
        w1 == [w EXCEPT !.items[i].tags = filter_nonempty(map_strip(dict_fromkeys(@)))]
    IN  IF Len(w1.items[i].tags) # old_len THEN on_changed(w1, i) ELSE w1

deduplicate(w, i) ==
    LET old_len == Len(w.items[i].tags)
        w1 == [w EXCEPT !.items[i].tags = dict_fromkeys(filter_nonempty(map_strip(@)))]
    IN  IF Len(w1.items[i].tags) # old_len THEN on_changed(w1, i) ELSE w1

\* set_tags, were it to mark the item only when deduplicate does (the source's
\* "TODO: only if changed?").
set_tags_if_changed(w, i, tags) == deduplicate([w EXCEPT !.items[i].tags = tags], i)

\* A tag argument is a list of tags: a single str is the one-element list
\* (isinstance(tags, str) => [tags]).
set_tags(w, i, tags) ==
    on_changed(deduplicate([w EXCEPT !.items[i].tags = tags], i), i)

\* prepend_tags, were it to put the given tags after the item's own.
prepend_tags_appending(w, i, tags) ==
    LET old_len == Len(w.items[i].tags)
        w1 == deduplicate([w EXCEPT !.items[i].tags = @ \o tags], i)
    IN  IF Len(w1.items[i].tags) # old_len THEN on_changed(w1, i) ELSE w1

prepend_tags(w, i, tags) ==
    LET old_len == Len(w.items[i].tags)
        w1 == deduplicate([w EXCEPT !.items[i].tags = tags \o @], i)
    IN  IF Len(w1.items[i].tags) # old_len THEN on_changed(w1, i) ELSE w1

add_tags(w, i, tags) ==
    LET old_len == Len(w.items[i].tags)
        w1 == deduplicate([w EXCEPT !.items[i].tags = @ \o tags], i)
    IN  IF Len(w1.items[i].tags) # old_len THEN on_changed(w1, i) ELSE w1

\* remove_tags, were it to leave the item unmarked.
remove_tags_unmarked(w, i, tags) ==
    [w EXCEPT !.items[i].tags = SelectSeq(@, LAMBDA t : t \notin Range(tags))]

remove_tags(w, i, tags) ==
    LET old_len == Len(w.items[i].tags)
        w1 == [w EXCEPT !.items[i].tags = SelectSeq(@, LAMBDA t : t \notin Range(tags))]
    IN  IF Len(w1.items[i].tags) # old_len THEN on_changed(w1, i) ELSE w1

\* match_tags, were it to ask for any tag of the query instead of all.
match_tags_any(w, i, tags) == \E k \in DOMAIN tags : tags[k] \in Range(w.items[i].tags)

match_tags(w, i, tags) == \A k \in DOMAIN tags : tags[k] \in Range(w.items[i].tags)

\* The world a call of match_tags leaves: the method assigns to no field and
\* touches no file.
match_tags_effect(w, i, tags) == w

\* replace_tags, were it to skip the match_tags test.
replace_tags_unguarded(w, i, search, replace) ==
    add_tags(remove_tags(w, i, search), i, replace)

replace_tags(w, i, search, replace) ==
    IF ~match_tags(w, i, search) THEN w
    ELSE add_tags(remove_tags(w, i, search), i, replace)

\* DatasetItem(parent, img_file, tags_file): the dataclass defaults, then
\* __post_init__, which reloads.
NewItem(img_path, tags_path) ==
    [img_file |-> img_path, tags_file |-> tags_path, tags |-> <<>>,
     selected |-> FALSE, dirty |-> FALSE, deleted |-> FALSE]

\* DatasetItem, were __post_init__ not to reload: the defaults and nothing else.
construct_without_reload(w, img_path, tags_path) ==
    [w EXCEPT !.items = Append(@, NewItem(img_path, tags_path)),
              !.persisted = Append(@, <<>>)]

construct(w, img_path, tags_path) ==
    LET w1 == [w EXCEPT !.items = Append(@, NewItem(img_path, tags_path)),
                        !.persisted = Append(@, <<>>)]
    IN  reload(w1, Len(w1.items))

\* ---------------------------------------------------------------- Dataset

\* The image files path.glob("**/*" + ext) finds.
glob(w, ext) == {p \in AllPaths : Len(p) = 2 /\ p[2] = ext /\ exists(w, p)}

\* The orders multi_ext_glob can yield the images in: one extension after the
\* other in the order of exts, and within an extension the order in which the
\* directory lists its entries, which is any order.
multi_ext_glob(w, exts) ==
    LET found == UNION {glob(w, exts[k]) : k \in DOMAIN exts}
        ext_index(p) == CHOOSE k \in DOMAIN exts : exts[k] = p[2]
    IN  {ord \in [1..Cardinality(found) -> found] :
            /\ \A p \in found : \E k \in DOMAIN ord : ord[k] = p
            /\ \A j, k \in DOMAIN ord : j < k => ext_index(ord[j]) <= ext_index(ord[k])}

RECURSIVE read_from(_, _, _)
\* The loop of Dataset.read over the images still to come.
read_from(w, ord, k) ==
    IF k > Len(ord) THEN w
    ELSE read_from(construct(w, ord[k], with_suffix(ord[k], <<tags_file_ext>>)), ord, k + 1)

\* Dataset.read, were it not to empty items first.
read_appending(w, ord) == read_from(w, ord, 1)

\* Dataset.read, with the images yielded in the order ord.
read(w, ord) == read_from([w EXCEPT !.items = <<>>, !.persisted = <<>>], ord, 1)

unsaved_changes_cnt(w) == Cardinality({i \in DOMAIN w.items : w.items[i].dirty})

\* A call handed to for_all or for_selected: the method and its arguments.
Apply(w, i, call) ==
    CASE call.name = "delete" -> delete(w, i, call.soft)
      [] call.name = "flush" -> flush(w, i, FALSE)
      [] call.name = "reload" -> reload(w, i)
      [] call.name = "deduplicate" -> deduplicate(w, i)
      [] call.name = "select_set" -> select_set(w, i, call.value)
      [] call.name = "select_invert" -> select_invert(w, i)
      [] call.name = "set_tags" -> set_tags(w, i, call.tags)
      [] call.name = "prepend_tags" -> prepend_tags(w, i, call.tags)
      [] call.name = "add_tags" -> add_tags(w, i, call.tags)
      [] call.name = "remove_tags" -> remove_tags(w, i, call.tags)
      [] call.name = "replace_tags" -> replace_tags(w, i, call.search, call.replace)

RECURSIVE for_from(_, _, _, _)
\* The loop of for_all (only_selected = FALSE) and of for_selected from item k on:
\* an exception a call raises ends the loop and leaves what was done so far.
for_from(w, k, call, only_selected) ==
    IF w.exc \/ k > Len(w.items) THEN w
    ELSE for_from(IF only_selected /\ ~w.items[k].selected THEN w ELSE Apply(w, k, call),
                  k + 1, call, only_selected)

for_all(w, call) == for_from(w, 1, call, FALSE)

for_selected(w, call) == for_from(w, 1, call, TRUE)

select_all(w) == for_from(w, 1, [name |-> "select_set", value |-> TRUE], FALSE)

select_none(w) == for_from(w, 1, [name |-> "select_set", value |-> FALSE], FALSE)

dataset_select_invert(w) == for_from(w, 1, [name |-> "select_invert"], FALSE)

dataset_flush(w) == for_from(w, 1, [name |-> "flush"], FALSE)

\* The indices of the items a list comprehension over items keeps.
kept_indices(w) == SelectSeq([k \in DOMAIN w.items |-> k], LAMBDA k : ~w.items[k].deleted)

remove_images(w, mode, soft) ==
    LET call == [name |-> "delete", soft |-> soft]
        w1 == IF mode = "selected" THEN for_selected(w, call) ELSE for_all(w, call)
        keep == kept_indices(w1)
    IN  IF w1.exc THEN w1
        ELSE [w1 EXCEPT !.items = [k \in DOMAIN keep |-> w1.items[keep[k]]],
                        !.persisted = [k \in DOMAIN keep |-> w1.persisted[keep[k]]]]

dataset_len(w) == Len(w.items)

get_selection(w) == SelectSeq(w.items, LAMBDA it : it.selected)

\* ---------------------------------------------------------------- actions

\* What last holds of a call: the method, the item's index (0 for a call on the
\* dataset), its boolean argument (force, soft or value), the removal mode, the
\* branch the method took, the number of items when it was called, and whether
\* it raised.
Called(op, i, flag, mode, branch, raised) ==
    [op |-> op, i |-> i, flag |-> flag, mode |-> mode, branch |-> branch,
     n |-> Len(items), raised |-> raised]

\* The step of an operation that ran in the current state and left the world w.
Do(w, call) ==
    /\ fs' = w.fs
    /\ items' = w.items
    /\ persisted' = w.persisted
    /\ last' = [call EXCEPT !.raised = w.exc]
    /\ UNCHANGED <<os_name, ui>>

ItemFlush(i, force) ==
    Do(flush(World, i, force),
       Called("flush", i, force, "",
              IF items[i].dirty \/ force THEN "written" ELSE "not written", FALSE))

ItemReload(i) == Do(reload(World, i), Called("reload", i, FALSE, "", "", FALSE))

ItemDelete(i, soft) == Do(delete(World, i, soft), Called("delete", i, soft, "", "", FALSE))

ItemSelectInvert(i) ==
    Do(select_invert(World, i), Called("select_invert", i, FALSE, "", "", FALSE))

ItemSelectSet(i, value) ==
    Do(select_set(World, i, value), Called("select_set", i, value, "", "", FALSE))

ItemDeduplicate(i) ==
    Do(deduplicate(World, i), Called("deduplicate", i, FALSE, "", "", FALSE))

ItemSetTags(i, tags) ==
    Do(set_tags(World, i, tags), Called("set_tags", i, FALSE, "", "", FALSE))

ItemPrependTags(i, tags) ==
    Do(prepend_tags(World, i, tags), Called("prepend_tags", i, FALSE, "", "", FALSE))

ItemAddTags(i, tags) ==
    Do(add_tags(World, i, tags), Called("add_tags", i, FALSE, "", "", FALSE))

ItemRemoveTags(i, tags) ==
    Do(remove_tags(World, i, tags), Called("remove_tags", i, FALSE, "", "", FALSE))

\* match_tags returns its answer (kept in last.flag).
ItemMatchTags(i, tags) ==
    Do(match_tags_effect(World, i, tags),
       Called("match_tags", i, match_tags(World, i, tags), "", "", FALSE))

ItemReplaceTags(i, search, replace) ==
    Do(replace_tags(World, i, search, replace),
       Called("replace_tags", i, FALSE, "",
              IF match_tags(World, i, search) THEN "match" ELSE "no match", FALSE))

DatasetRead(ord) == Do(read(World, ord), Called("read", 0, FALSE, "", "", FALSE))

SelectAll == Do(select_all(World), Called("select_all", 0, FALSE, "", "", FALSE))

SelectNone == Do(select_none(World), Called("select_none", 0, FALSE, "", "", FALSE))

SelectInvert ==
    Do(dataset_select_invert(World), Called("select_invert", 0, FALSE, "", "", FALSE))

DatasetFlush == Do(dataset_flush(World), Called("flush", 0, FALSE, "", "", FALSE))

RemoveImages(mode, soft) ==
    Do(remove_images(World, mode, soft), Called("remove_images", 0, soft, mode, "", FALSE))

\* ----------------------------------------------------------- a single item

\* The raw tags callers pass: "a", " a ", "b", " " and ",".
RawTags == {<<"a">>, <<" ", "a", " ">>, <<"b">>, <<" ">>, <<",">>}

\* The tags of the lists handed to set_tags, prepend_tags, add_tags, remove_tags
\* and match_tags; "b" comes in with the sidecar files and with replace_tags.
ArgTags == RawTags \ {<<"b">>}

TagArgs == SeqsUpTo(ArgTags, MaxArgLen)

\* The tags of the search and replace lists handed to replace_tags.
ReplaceTags == {<<"a">>, <<" ", "a", " ">>, <<"b">>}

ReplaceArgs == SeqsUpTo(ReplaceTags, MaxReplaceLen)

\* What the sidecar of the image holds before the item is constructed:
\* "", "a, b", "a,a" and " b,".
InitTexts == {<<>>, <<"a", ",", " ", "b">>, <<"a", ",", "a">>, <<" ", "b", ",">>}

ItemImage == <<"a", ".png">>

ItemTags == with_suffix(ItemImage, <<tags_file_ext>>)

EmptyDisk == [p \in AllPaths |-> NoFile]

\* One image, with or without a sidecar, and the DatasetItem constructed for it.
\* No step of this specification renames a file, so os_name is left at one value.
InitItem ==
    /\ os_name = "posix"
    /\ \E side \in {NoFile} \cup {TextFile(t) : t \in InitTexts} :
         LET disk == [EmptyDisk EXCEPT ![ItemImage] = ImageFile(ItemImage),
                                       ![ItemTags] = side]
             w == construct([fs |-> disk, items |-> <<>>, persisted |-> <<>>, exc |-> FALSE],
                            ItemImage, ItemTags)
         IN  /\ fs = w.fs
             /\ items = w.items
             /\ persisted = w.persisted
    /\ last = [Called("construct", 1, FALSE, "", "", FALSE) EXCEPT !.n = 0]
    /\ ui = NoUI

\* The item's tag algebra, persistence and selection; deletion is part of Spec.
NextItem ==
    \/ \E i \in DOMAIN items, force \in BOOLEAN : ItemFlush(i, force)
    \/ \E i \in DOMAIN items : ItemReload(i)
    \/ \E i \in DOMAIN items : ItemSelectInvert(i)
    \/ \E i \in DOMAIN items, value \in BOOLEAN : ItemSelectSet(i, value)
    \/ \E i \in DOMAIN items : ItemDeduplicate(i)
    \/ \E i \in DOMAIN items, tags \in TagArgs : ItemSetTags(i, tags)
    \/ \E i \in DOMAIN items, tags \in TagArgs : ItemPrependTags(i, tags)
    \/ \E i \in DOMAIN items, tags \in TagArgs : ItemAddTags(i, tags)
    \/ \E i \in DOMAIN items, tags \in TagArgs : ItemRemoveTags(i, tags)
    \/ \E i \in DOMAIN items, tags \in ReplaceArgs : ItemMatchTags(i, tags)
    \/ \E i \in DOMAIN items, search \in ReplaceArgs, replace \in ReplaceArgs :
           ItemReplaceTags(i, search, replace)

SpecItem == InitItem /\ [][NextItem]_vars

\* ------------------------------------------------- deduplicate on raw lists

\* An item whose tags are any raw list, as set_tags, prepend_tags and add_tags
\* leave them before they call deduplicate.
InitDedup ==
    /\ os_name = "posix"
    /\ fs = [EmptyDisk EXCEPT ![ItemImage] = ImageFile(ItemImage),
                              ![ItemTags] = TextFile(<<>>)]
    /\ \E raw \in SeqsUpTo(RawTags, MaxRawLen) :
         items = <<[NewItem(ItemImage, ItemTags) EXCEPT !.tags = raw]>>
    /\ persisted = <<<<>>>>
    /\ last = [Called("construct", 1, FALSE, "", "", FALSE) EXCEPT !.n = 0]
    /\ ui = NoUI

NextDedup == \E i \in DOMAIN items : ItemDeduplicate(i)

SpecDedup == InitDedup /\ [][NextDedup]_vars

\* ------------------------------------------------------------- a dataset

\* The images of the scanned directory: two share the stem, and so the sidecar.
DsImages == {<<"a", ".jpg">>, <<"a", ".png">>, <<"b", ".png">>}

\* What a sidecar of the directory holds at the start: "a".
DsTexts == {<<"a">>}

\* A directory of images, each stem with or without a sidecar, and a Dataset
\* constructed for it and not scanned yet.
Init ==
    /\ os_name \in {"posix", "nt"}
    /\ \E side \in [Stems -> {NoFile} \cup {TextFile(t) : t \in DsTexts}] :
         fs = [p \in AllPaths |->
                 IF p \in DsImages THEN ImageFile(p)
                 ELSE IF Len(p) = 2 /\ p[2] = tags_file_ext THEN side[p[1]]
                 ELSE NoFile]
    /\ items = <<>>
    /\ persisted = <<>>
    /\ last = [Called("Dataset", 0, FALSE, "", "", FALSE) EXCEPT !.n = 0]
    /\ ui = NoUI

\* Scanning, selection, flushing and removal; the tag mutators, and flush and
\* reload of a single item, are part of SpecItem.
Next ==
    \/ \E ord \in multi_ext_glob(World, ImgExts) : DatasetRead(ord)
    \/ SelectAll
    \/ SelectNone
    \/ SelectInvert
    \/ DatasetFlush
    \/ \E mode \in {"selected", "all"}, soft \in BOOLEAN : RemoveImages(mode, soft)
    \/ \E i \in DOMAIN items, soft \in BOOLEAN : ItemDelete(i, soft)
    \/ \E i \in DOMAIN items : ItemSelectInvert(i)
    \/ \E i \in DOMAIN items, value \in BOOLEAN : ItemSelectSet(i, value)

Spec == Init /\ [][Next]_vars

\* ------------------------------------------------------------- the editor

\* str.replace(old, new) for one-character old and new
str_replace(text, old, new) == [k \in DOMAIN text |-> IF text[k] = old THEN new ELSE text[k]]

\* remove_tags_underscores, were it to leave tags of up to four characters alone.
remove_tags_underscores_over_four(tags) ==
    [k \in DOMAIN tags |->
        IF Len(tags[k]) > 4 THEN str_replace(tags[k], "_", " ") ELSE tags[k]]

remove_tags_underscores(tags) ==
    [k \in DOMAIN tags |->
        IF Len(tags[k]) > 3 THEN str_replace(tags[k], "_", " ") ELSE tags[k]]

\* A UIDataset and its items, without the disk.
DsRecord(w) == [items |-> w.items, persisted |-> w.persisted, selected_cnt |-> w.selected_cnt]

\* The world of the UIDataset d on the disk f.
DsWorld(f, d) ==
    [fs |-> f, items |-> d.items, persisted |-> d.persisted, exc |-> FALSE,
     selected_cnt |-> d.selected_cnt]

\* The world of the UIDataset loaded last.
UIWorld == DsWorld(fs, [items |-> items, persisted |-> persisted,
                        selected_cnt |-> ui.selected_cnt])

\* UIDataset.from_path: a UIDataset of the path with the dataclass defaults.
from_path(f) == DsWorld(f, [items |-> <<>>, persisted |-> <<>>, selected_cnt |-> 0])

\* UIDataset.reload: the table is cleared and the directory read; the outcomes,
\* one for each order the directory can list its images in.
UIDataset_reload(w) == {read(w, ord) : ord \in multi_ext_glob(w, ImgExts)}

\* UIDataset.setup: the dialogs and controls are built, then reload.
setup(w) == UIDataset_reload(w)

\* UIDatasetItem.update_from_input
update_from_input(w, i, text) == set_tags(w, i, split_tags(text))

\* UIDataset._apply_op: for_all when "Affect everything" is ticked, else for_selected
_apply_op(w, affect_all, call) == IF affect_all THEN for_all(w, call) ELSE for_selected(w, call)

\* UIDataset.remove_images: Dataset.remove_images, then reload (which an
\* exception of the former skips).
UIDataset_remove_images(w, mode, soft) ==
    LET w1 == remove_images(w, mode, soft)
    IN  IF w1.exc THEN {w1} ELSE UIDataset_reload(w1)

\* UIDataset._ask_remove_images, the dialog answered with "Yes" (soft) or with
\* "DELETE PERMANENTLY": the sanity assertion, then remove_images.
_ask_remove_images(w, affect_all, soft) ==
    IF w.selected_cnt # Len(get_selection(w)) THEN {[w EXCEPT !.exc = TRUE]}
    ELSE UIDataset_remove_images(w, IF affect_all THEN "all" ELSE "selected", soft)

\* autotag up to its await: every sidecar of the directory is unlinked.
autotag_unlink(w) ==
    [w EXCEPT !.fs = [p \in AllPaths |-> IF p \in glob(w, tags_file_ext) THEN NoFile
                                         ELSE w.fs[p]]]

\* The tagger run by run_kohya_async, when it succeeds: for every image of the
\* directory it writes the caption out[stem] to the sidecar of the image's stem.
tag_images(w, out) ==
    [w EXCEPT !.fs = [p \in AllPaths |->
                        IF /\ Len(p) = 2 /\ p[2] = tags_file_ext
                           /\ \E e \in Range(ImgExts) : exists(w, <<p[1], e>>)
                        THEN TextFile(out[p[1]])
                        ELSE w.fs[p]]]

RECURSIVE autotag_cleanup(_, _, _)
\* The loop of autotag over the items from item k on: underscores are taken out
\* of the tags and the blacklisted tags removed.
autotag_cleanup(w, k, blacklist_tags) ==
    IF k > Len(w.items) THEN w
    ELSE autotag_cleanup(
             remove_tags(set_tags(w, k, remove_tags_underscores(w.items[k].tags)),
                         k, blacklist_tags),
             k + 1, blacklist_tags)

\* autotag after its await: reload, the cleanup loop, flush.
autotag_resume(w, blacklist_tags) ==
    {dataset_flush(autotag_cleanup(w1, 1, blacklist_tags)) : w1 \in UIDataset_reload(w)}

RECURSIVE save_earlier(_, _, _)
\* The handlers of the Save button that earlier calls of _load_dataset added,
\* from the k-th on, in the order they were added: each flushes its dataset.
save_earlier(f, earlier, k) ==
    IF k > Len(earlier) THEN [fs |-> f, earlier |-> earlier]
    ELSE LET w == dataset_flush(DsWorld(f, earlier[k]))
         IN  save_earlier(w.fs, [earlier EXCEPT ![k] = DsRecord(w)], k + 1)

\* ------------------------------------------------------ the editor's steps

\* Most datasets loaded in a run of the editor.
MaxLoads == 2

\* Largest selected_cnt a step may leave.
MaxSelectedCnt == 2

\* The images of the directory the editor is pointed at.
UiImages == {<<"a", ".jpg">>, <<"b", ".png">>}

\* What a sidecar of the directory holds at the start: "a".
UiTexts == {<<"a">>}

\* The captions the tagger writes: "ab_c" and "a_b,ab c".
ToolTexts == {<<"a", "b", "_", "c">>, <<"a", "_", "b", ",", "a", "b", " ", "c">>}

\* The blacklists typed into the autotag dialog: "ab c" and "a_b,".
BlacklistTexts == {<<"a", "b", " ", "c">>, <<"a", "_", "b", ",">>}

\* What is typed into an item's textarea before "Update": "b".
UpdateTexts == {<<"b">>}

\* What is typed into input A before "Remove A": "a".
InputTexts == {<<"a">>}

\* The step of a handler that ran on the dataset loaded last and left the world
\* w and the editor u.
DoUI(w, u, call) ==
    /\ w.selected_cnt <= MaxSelectedCnt
    /\ fs' = w.fs
    /\ items' = w.items
    /\ persisted' = w.persisted
    /\ ui' = [u EXCEPT !.selected_cnt = w.selected_cnt]
    /\ last' = [call EXCEPT !.raised = w.exc]
    /\ UNCHANGED os_name

\* The browser lets the user click a control of the dataset: the controls exist
\* and no loading dialog is drawn over the page.
CanClick == ui.loaded /\ ~ui.client_loading

\* _load_dataset: a new UIDataset is set up, and its flush added to the
\* handlers of the Save button; the dataset loaded before keeps its handler.
LoadDataset ==
    /\ ~ui.client_loading
    /\ Len(ui.earlier) + (IF ui.loaded THEN 1 ELSE 0) < MaxLoads
    /\ \E w \in setup(from_path(fs)) :
         DoUI(w,
              [ui EXCEPT !.loaded = TRUE,
                         !.earlier = IF ui.loaded THEN Append(@, DsRecord(UIWorld)) ELSE @],
              Called("_load_dataset", 0, FALSE, "", "", FALSE))

\* A click on "Save to disk": every handler added to the button runs, in the
\* order they were added.
SaveToDisk ==
    /\ CanClick
    /\ LET r == save_earlier(fs, ui.earlier, 1)
           w == dataset_flush(DsWorld(r.fs, DsRecord(UIWorld)))
       IN  DoUI(w, [ui EXCEPT !.earlier = r.earlier],
                Called("save", 0, FALSE, "", "", FALSE))

\* An item's checkbox changed to value.
ClickCheckbox(i, value) ==
    /\ CanClick
    /\ DoUI(select_set(UIWorld, i, value), ui, Called("select_set", 0, FALSE, "", "", FALSE))

ClickSelectAll ==
    /\ CanClick
    /\ DoUI(select_all(UIWorld), ui, Called("select_all", 0, FALSE, "", "", FALSE))

ClickSelectNone ==
    /\ CanClick
    /\ DoUI(select_none(UIWorld), ui, Called("select_none", 0, FALSE, "", "", FALSE))

ClickSelectInvert ==
    /\ CanClick
    /\ DoUI(dataset_select_invert(UIWorld), ui,
            Called("select_invert", 0, FALSE, "", "", FALSE))

\* An item's "Update" button, with text in its textarea.
ClickUpdate(i, text) ==
    /\ CanClick
    /\ DoUI(update_from_input(UIWorld, i, text), ui,
            Called("update_from_input", 0, FALSE, "", "", FALSE))

\* "Remove A", with text in input A.
ClickRemoveA(affect_all, text) ==
    /\ CanClick
    /\ DoUI(_apply_op(UIWorld, affect_all,
                      [name |-> "remove_tags", tags |-> split_tags(text)]),
            ui, Called("remove_tags", 0, affect_all, "", "", FALSE))

\* "Remove images", the dialog answered.
ClickRemoveImages(affect_all, soft) ==
    /\ CanClick
    /\ \E w \in _ask_remove_images(UIWorld, affect_all, soft) :
         DoUI(w, ui,
              Called("_ask_remove_images", 0, FALSE, "",
                     IF ui.selected_cnt # Len(get_selection(UIWorld))
                     THEN "assertion failed" ELSE "removed",
                     FALSE))

\* "Autotag", the dialog submitted with text as its blacklist: the loading
\* dialog is opened, the sidecars are unlinked, and autotag awaits the tagger.
AutotagStart(text) ==
    /\ CanClick
    /\ ui.autotag = "idle"
    /\ DoUI(autotag_unlink(UIWorld),
            [ui EXCEPT !.autotag = "waiting",
                       !.blacklist = split_tags(text), !.loading = TRUE],
            Called("autotag", 0, FALSE, "", "awaiting", FALSE))

\* The browser draws the loading dialog the server has opened, or takes away
\* the one it has closed.
ClientRender ==
    /\ ui.client_loading # ui.loading
    /\ ui' = [ui EXCEPT !.client_loading = ui.loading]
    /\ UNCHANGED <<os_name, fs, items, persisted, last>>

\* The tagger has succeeded, with the captions out: autotag goes on to its
\* end, and the loading dialog is closed.
AutotagDone(out) ==
    /\ ui.autotag = "waiting"
    /\ \E w \in autotag_resume(tag_images(UIWorld, out), ui.blacklist) :
         DoUI(w, [ui EXCEPT !.autotag = "idle", !.loading = FALSE],
              Called("autotag", 0, FALSE, "", "complete", FALSE))

\* The tagger has failed: run_kohya_async raises CalledProcessError, which ends
\* autotag; the loading dialog is closed on the way out.
AutotagFailed ==
    /\ ui.autotag = "waiting"
    /\ DoUI([UIWorld EXCEPT !.exc = TRUE],
            [ui EXCEPT !.autotag = "idle", !.loading = FALSE],
            Called("autotag", 0, FALSE, "", "failed", FALSE))

\* The directory the editor is pointed at: the images, each with or without
\* a sidecar.
UiDisks ==
    {[p \in AllPaths |->
         IF p \in UiImages THEN ImageFile(p)
         ELSE IF Len(p) = 2 /\ p[2] = tags_file_ext /\ p[1] \in {q[1] : q \in UiImages}
              THEN side[p[1]]
         ELSE NoFile] : side \in [Stems -> {NoFile} \cup {TextFile(t) : t \in UiTexts}]}

\* run_ui with a dataset_path: the editor starts with the dataset loaded.
InitUI ==
    /\ os_name = "posix"
    /\ \E disk \in UiDisks : \E w \in setup(from_path(disk)) :
         /\ fs = w.fs
         /\ items = w.items
         /\ persisted = w.persisted
    /\ last = [Called("_load_dataset", 0, FALSE, "", "", FALSE) EXCEPT !.n = 0]
    /\ ui = [NoUI EXCEPT !.loaded = TRUE]

\* The handlers of a loaded dataset, and autotag with the tagger it waits for;
\* loading further datasets is part of SpecLoad.
NextUI ==
    \/ SaveToDisk
    \/ \E i \in DOMAIN items, value \in BOOLEAN : ClickCheckbox(i, value)
    \/ ClickSelectAll
    \/ ClickSelectNone
    \/ ClickSelectInvert
    \/ \E i \in DOMAIN items, text \in UpdateTexts : ClickUpdate(i, text)
    \/ \E affect_all \in BOOLEAN, text \in InputTexts : ClickRemoveA(affect_all, text)
    \/ \E affect_all \in BOOLEAN, soft \in BOOLEAN : ClickRemoveImages(affect_all, soft)
    \/ \E text \in BlacklistTexts : AutotagStart(text)
    \/ ClientRender
    \/ \E out \in [Stems -> ToolTexts] : AutotagDone(out)
    \/ AutotagFailed

SpecUI == InitUI /\ [][NextUI]_vars

\* run_ui without a dataset_path: the editor starts with no dataset.
InitLoad ==
    /\ os_name = "posix"
    /\ fs \in UiDisks
    /\ items = <<>>
    /\ persisted = <<>>
    /\ last = [Called("run_ui", 0, FALSE, "", "", FALSE) EXCEPT !.n = 0]
    /\ ui = NoUI

\* Datasets loaded one after the other, edited and saved.
NextLoad ==
    \/ LoadDataset
    \/ SaveToDisk
    \/ \E i \in DOMAIN items, text \in UpdateTexts : ClickUpdate(i, text)
    \/ \E i \in DOMAIN items, value \in BOOLEAN : ClickCheckbox(i, value)

SpecLoad == InitLoad /\ [][NextLoad]_vars

\* ----------------------------------------------------------------- claims

NoDuplicates(xs) == \A j, k \in DOMAIN xs : j # k => xs[j] # xs[k]

\* C1: after any sequence of DatasetItem operations, an item's tags hold no
\* duplicate and no empty or whitespace-only entry.
C1_TagsCleanAtRest ==
    \A i \in DOMAIN items :
        /\ NoDuplicates(items[i].tags)
        /\ \A k \in DOMAIN items[i].tags : strip(items[i].tags[k]) # <<>>

\* C2, as claimed: dirty is true exactly when the item's tags differ from the
\* list last loaded from or written to its sidecar.
C2_DirtyIffDiverged ==
    \A i \in DOMAIN items : items[i].dirty <=> (items[i].tags # persisted[i])

\* C2, amended: an item whose tags differ from the list last loaded from or
\* written to its sidecar is dirty (a dirty item's tags may equal that list),
\* and dirty is false right after construction and after reload.
C2_DirtyIfDiverged ==
    \A i \in DOMAIN items :
        /\ items[i].tags # persisted[i] => items[i].dirty
        /\ last.op \in {"construct", "reload"} /\ last.i = i => ~items[i].dirty
        /\ ~reload(World, i).items[i].dirty

\* C2's case: a mutator has changed the tags of a loaded item, and the item is
\* dirty.
C2_Witness ==
    \E i \in DOMAIN items :
        /\ last.op = "remove_tags"
        /\ last.i = i
        /\ items[i].tags # persisted[i]
        /\ Len(persisted[i]) > 1
        /\ items[i].dirty

\* C3: on a clean item, one call of add_tags, remove_tags or prepend_tags leaves
\* dirty true exactly when the number of tags after the call differs from the
\* number before it.
C3_DirtyIffCountChanged ==
    \A i \in DOMAIN items : \A tags \in TagArgs :
        ~items[i].dirty =>
            \A w \in {add_tags(World, i, tags), remove_tags(World, i, tags),
                      prepend_tags(World, i, tags)} :
                w.items[i].dirty <=> (Len(w.items[i].tags) # Len(items[i].tags))

\* C4: after set_tags(x) the item is dirty, for every x (the current tags and
\* the empty list included) and every prior state.
C4_SetTagsMarksDirty ==
    \A i \in DOMAIN items : \A tags \in TagArgs \cup {items[i].tags} :
        set_tags(World, i, tags).items[i].dirty

\* C4's case: set_tags has run, the tags are those of the sidecar, and the item
\* is dirty.
C4_Witness ==
    \E i \in DOMAIN items :
        /\ last.op = "set_tags"
        /\ last.i = i
        /\ items[i].tags = persisted[i]
        /\ items[i].tags # <<>>
        /\ items[i].dirty

\* The item i of world w with its deleted flag set to d. SpecItem runs no
\* delete, so the frame claims below are stated for both values of the flag.
WithDeleted(w, i, d) == [w EXCEPT !.items[i].deleted = d]

\* C5: when match_tags(search) is false, replace_tags(search, replace) leaves the
\* item's tags, dirty, selected and deleted and every file as they were.
C5_ReplaceNoMatchIsNoop ==
    \A i \in DOMAIN items : \A d \in BOOLEAN :
    \A search \in ReplaceArgs : \A replace \in ReplaceArgs :
        LET w0 == WithDeleted(World, i, d)
            w1 == replace_tags(w0, i, search, replace)
        IN  ~match_tags(w0, i, search) =>
                /\ w1.items[i].tags = w0.items[i].tags
                /\ w1.items[i].dirty = w0.items[i].dirty
                /\ w1.items[i].selected = w0.items[i].selected
                /\ w1.items[i].deleted = w0.items[i].deleted
                /\ w1.fs = w0.fs

\* C5's case: replace_tags has run on a clean item that holds tags, its search
\* did not match, and the item is still clean and as loaded.
C5_Witness ==
    \E i \in DOMAIN items :
        /\ last.op = "replace_tags"
        /\ last.i = i
        /\ last.branch = "no match"
        /\ items[i].tags # <<>>
        /\ items[i].tags = persisted[i]
        /\ ~items[i].dirty

\* C6: a flush that writes, followed by reload, leaves the tags the item held
\* before the flush, and the item clean.
C6_FlushReloadRoundTrip ==
    \A i \in DOMAIN items : \A force \in BOOLEAN :
        LET w1 == reload(flush(World, i, force), i)
        IN  items[i].dirty \/ force =>
                /\ w1.items[i].tags = items[i].tags
                /\ ~w1.items[i].dirty

\* C7: deduplicate is idempotent: a second call in a row leaves the tags the
\* first call left.
C7_DeduplicateIdempotent ==
    \A i \in DOMAIN items :
        deduplicate(deduplicate(World, i), i).items[i].tags
            = deduplicate(World, i).items[i].tags

\* C7's case: deduplicate has run and shortened the list (the item is dirty),
\* and a further call leaves the tags as they are.
C7_Witness ==
    \E i \in DOMAIN items :
        /\ last.op = "deduplicate"
        /\ items[i].dirty
        /\ Len(items[i].tags) > 1
        /\ deduplicate(World, i).items[i].tags = items[i].tags

\* C8: flush(force) overwrites the sidecar with the comma-joined tags exactly
\* when dirty or force holds, leaves every file untouched otherwise, and either
\* way ends with dirty false and tags, selected and deleted unchanged.
C8_FlushWritesIffDirtyOrForce ==
    \A i \in DOMAIN items : \A d \in BOOLEAN : \A force \in BOOLEAN :
        LET w0 == WithDeleted(World, i, d)
            it == w0.items[i]
            w1 == flush(w0, i, force)
        IN  /\ w1.fs = IF it.dirty \/ force
                       THEN [w0.fs EXCEPT ![it.tags_file] = TextFile(join_tags(it.tags))]
                       ELSE w0.fs
            /\ ~w1.items[i].dirty
            /\ w1.items[i].tags = it.tags
            /\ w1.items[i].selected = it.selected
            /\ w1.items[i].deleted = it.deleted

\* C8's case: a forced flush has written the sidecar of a selected item, which
\* holds the item's two or more tags joined by ", ".
C8_Witness ==
    \E i \in DOMAIN items :
        /\ last.op = "flush"
        /\ last.i = i
        /\ last.flag
        /\ last.branch = "written"
        /\ items[i].selected
        /\ Len(items[i].tags) > 1
        /\ fs[items[i].tags_file] = TextFile(join_tags(items[i].tags))
        /\ ~items[i].dirty

\* PurePath.with_suffix(suffix + ".deleted"): where delete(soft=True) moves p.
deleted_path(p) == with_suffix(p, suffix(p) \o <<".deleted">>)

\* Every item is as scanned: not deleted, with its image and its sidecar on disk.
AsScanned ==
    \A i \in DOMAIN items :
        /\ ~items[i].deleted
        /\ exists(World, items[i].img_file)
        /\ exists(World, items[i].tags_file)

\* C9: on a scanned dataset, remove_images('selected', soft=True) leaves exactly
\* the unselected items, in their order, and every removed item's image and
\* sidecar are on disk under the former path with ".deleted" appended and no
\* longer under the former path.
C9_RemoveSelectedSoft ==
    AsScanned =>
        LET w1 == remove_images(World, "selected", TRUE)
        IN  /\ w1.items = SelectSeq(items, LAMBDA it : ~it.selected)
            /\ \A i \in DOMAIN items :
                   items[i].selected =>
                       /\ w1.fs[deleted_path(items[i].img_file)] = fs[items[i].img_file]
                       /\ exists(w1, deleted_path(items[i].tags_file))
                       /\ ~exists(w1, items[i].img_file)
                       /\ ~exists(w1, items[i].tags_file)

\* C10: remove_images('all', soft=False) does not raise, leaves no item, and
\* leaves neither the image nor the sidecar of any item on disk, whether or not
\* the files were there.
C10_RemoveAllHard ==
    LET w1 == remove_images(World, "all", FALSE)
    IN  /\ ~w1.exc
        /\ w1.items = <<>>
        /\ \A i \in DOMAIN items :
               /\ ~exists(w1, items[i].img_file)
               /\ ~exists(w1, items[i].tags_file)

\* C10's case: remove_images('all', soft=False) has run on the three items, two
\* of which share a sidecar (gone when the second is deleted), and has not
\* raised; no item and none of their files is left.
C10_Witness ==
    /\ last.op = "remove_images"
    /\ last.mode = "all"
    /\ ~last.flag
    /\ last.n = Cardinality(DsImages)
    /\ ~last.raised
    /\ items = <<>>
    /\ \A p \in BasePaths : ~exists(World, p)

\* C11: in every state of a Dataset, unsaved_changes_cnt is the number of
\* non-deleted dirty items, len() the number of non-deleted items, and
\* get_selection() the non-deleted selected items in scan order.
C11_CountsOfActiveItems ==
    /\ unsaved_changes_cnt(World) =
           Cardinality({i \in DOMAIN items : ~items[i].deleted /\ items[i].dirty})
    /\ dataset_len(World) = Cardinality({i \in DOMAIN items : ~items[i].deleted})
    /\ get_selection(World) = SelectSeq(items, LAMBDA it : ~it.deleted /\ it.selected)

RECURSIVE raised_at(_, _, _, _)
\* The index of the item on which the loop of for_all / for_selected raises,
\* from item k on; 0 when it runs to its end.
raised_at(w, k, call, only_selected) ==
    IF k > Len(w.items) THEN 0
    ELSE LET w1 == IF only_selected /\ ~w.items[k].selected THEN w ELSE Apply(w, k, call)
         IN  IF w1.exc THEN k ELSE raised_at(w1, k + 1, call, only_selected)

\* C12: in Dataset.flush and Dataset.remove_images a failure on one item does
\* not keep the operation from the others: every other item is flushed (dirty
\* cleared), and every other targeted item is deleted and no longer in items.
C12_BulkIsolatesFailures ==
    /\ LET failed == raised_at(World, 1, [name |-> "flush"], FALSE)
           w1 == dataset_flush(World)
       IN  \A k \in DOMAIN items : k # failed => ~w1.items[k].dirty
    /\ \A mode \in {"selected", "all"}, soft \in BOOLEAN :
         LET failed == raised_at(World, 1, [name |-> "delete", soft |-> soft],
                                 mode = "selected")
             w1 == remove_images(World, mode, soft)
         IN  \A k \in DOMAIN items :
                 k # failed /\ (mode = "all" \/ items[k].selected) =>
                     \A j \in DOMAIN w1.items : w1.items[j].img_file # items[k].img_file

\* C13: delete(soft=True) raises whenever the ".deleted" path of the image or
\* of the sidecar already exists, and the file that was there keeps its content.
C13_SoftDeleteCollisionFails ==
    \A i \in DOMAIN items :
        LET img_target == deleted_path(items[i].img_file)
            tags_target == deleted_path(items[i].tags_file)
            w1 == delete(World, i, TRUE)
        IN  exists(World, img_target) \/ exists(World, tags_target) =>
                /\ w1.exc
                /\ exists(World, img_target) => w1.fs[img_target] = fs[img_target]
                /\ exists(World, tags_target) => w1.fs[tags_target] = fs[tags_target]

\* The image files of the directory: the .jpg, .jpeg and .png files on disk.
ImagesOnDisk ==
    {p \in AllPaths : Len(p) = 2 /\ p[2] \in Range(ImgExts) /\ exists(World, p)}

\* C14: after a scan, items holds exactly one item per image file of the
\* directory and nothing of the previous scan; each item is clean, unselected
\* and not deleted, its sidecar exists, and its tags are the parsed content of
\* the sidecar when that existed before the scan and the empty list otherwise.
C14_ScanBuildsFreshItems ==
    \A ord \in multi_ext_glob(World, ImgExts) :
        LET w1 == read(World, ord)
        IN  /\ Len(w1.items) = Cardinality(ImagesOnDisk)
            /\ {w1.items[k].img_file : k \in DOMAIN w1.items} = ImagesOnDisk
            /\ \A k \in DOMAIN w1.items :
                   LET it == w1.items[k]
                   IN  /\ ~it.dirty
                       /\ ~it.selected
                       /\ ~it.deleted
                       /\ exists(w1, it.tags_file)
                       /\ it.tags = IF exists(World, it.tags_file)
                                    THEN split_tags(read_text(World, it.tags_file))
                                    ELSE <<>>

\* C14's case: a scan has just run over a directory scanned before, from which
\* a.jpg and the shared sidecar were soft-deleted since; the three previous
\* items are gone, the item of a.png has a sidecar created empty by the scan,
\* and another item has the tags its sidecar held.
C14_Witness ==
    /\ last.op = "read"
    /\ last.n = 3
    /\ Len(items) = 2
    /\ \E i \in DOMAIN items :
           /\ items[i].tags = <<>>
           /\ exists(World, deleted_path(items[i].tags_file))
           /\ fs[items[i].tags_file] = TextFile(<<>>)
    /\ \E j \in DOMAIN items : items[j].tags # <<>>

\* C15: in every state of a Dataset, every item's image path is an image path
\* of the scanned directory, and no two non-deleted items have the same one.
C15_ImagePathsUnique ==
    /\ \A i \in DOMAIN items :
           items[i].img_file \in {p \in BasePaths : p[2] \in Range(ImgExts)}
    /\ \A i, j \in DOMAIN items :
           i # j /\ ~items[i].deleted /\ ~items[j].deleted =>
               items[i].img_file # items[j].img_file

\* C15's case: the directory has been scanned again with the three items of
\* the previous scan still listed, and holds three items once more.
C15_Witness ==
    /\ last.op = "read"
    /\ last.n = 3
    /\ Len(items) = 3
    /\ \A i \in DOMAIN items : ~items[i].deleted

\* The entries of xs that are among ys, and those that are not, in the order of xs.
Within(xs, ys) == LET among == Range(ys) IN SelectSeq(xs, LAMBDA t : t \in among)

Without(xs, ys) == LET among == Range(ys) IN SelectSeq(xs, LAMBDA t : t \notin among)

\* The first occurrences of the tags of xs that are also in ys, in the order of xs.
Common(xs, ys) == Within(dict_fromkeys(xs), ys)

\* Two tags that are in both lists come (by first occurrence) in the same order
\* in both.
OrderKept(before, after) == Common(before, after) = Common(after, before)

\* The tags a caller's list stands for: trimmed, non-empty, first occurrences.
Clean(tags) == dict_fromkeys(filter_nonempty(map_strip(tags)))

\* add_tags keeps the order of the previous tags and puts the new ones after
\* all of them, in the order given.
AddTagsAppends(i, tags) ==
    LET before == items[i].tags
        after == add_tags(World, i, tags).items[i].tags
    IN  /\ OrderKept(before, after)
        /\ after = Within(after, before) \o Without(Clean(tags), before)

\* C16: add_tags, remove_tags, deduplicate and replace_tags keep the relative
\* order of two tags present before and after the call; add_tags puts the new
\* tags last, in the order given; prepend_tags gives the given tags (trimmed,
\* non-empty, first occurrences) followed by the previous tags not among them.
C16_OrderPreserved ==
    \A i \in DOMAIN items :
        LET before == items[i].tags
        IN  /\ OrderKept(before, deduplicate(World, i).items[i].tags)
            /\ \A tags \in TagArgs :
                   /\ AddTagsAppends(i, tags)
                   /\ OrderKept(before, remove_tags(World, i, tags).items[i].tags)
                   /\ prepend_tags(World, i, tags).items[i].tags =
                          LET given == Clean(tags) IN given \o Without(before, given)
            /\ \A search \in ReplaceArgs : \A replace \in ReplaceArgs :
                   OrderKept(before, replace_tags(World, i, search, replace).items[i].tags)

\* C16 as the code has it: add_tags, remove_tags and deduplicate keep the
\* relative order (by first occurrence) of two tags present before and after;
\* replace_tags keeps it for the tags that are not in search; add_tags puts the
\* new tags last, in the order given; prepend_tags gives the given tags
\* (trimmed, non-empty, first occurrences) followed by the first occurrences of
\* the previous tags not among them.
C16_OrderPreservedOutsideSearch ==
    \A i \in DOMAIN items :
        LET before == items[i].tags
        IN  /\ OrderKept(before, deduplicate(World, i).items[i].tags)
            /\ \A tags \in TagArgs :
                   /\ AddTagsAppends(i, tags)
                   /\ OrderKept(before, remove_tags(World, i, tags).items[i].tags)
                   /\ prepend_tags(World, i, tags).items[i].tags =
                          LET given == Clean(tags)
                          IN  given \o Without(dict_fromkeys(before), given)
            /\ \A search \in ReplaceArgs : \A replace \in ReplaceArgs :
                   OrderKept(Without(before, search),
                             replace_tags(World, i, search, replace).items[i].tags)

\* C16's case: prepend_tags has put "a" before "b" and "," in an item that held
\* them as b, a, ",".
C16_Witness ==
    \E i \in DOMAIN items :
        /\ last.op = "prepend_tags"
        /\ last.i = i
        /\ persisted[i] = <<<<"b">>, <<"a">>, <<",">>>>
        /\ items[i].tags = <<<<"a">>, <<"b">>, <<",">>>>
        /\ items[i].dirty

\* C17: when match_tags(search) holds, replace_tags leaves the previous tags
\* without the members of search, followed by the trimmed non-empty tags of
\* replace that are not already present, in the order given; that is what
\* remove_tags(search) followed by add_tags(replace) leaves.
C17_ReplaceIsRemoveThenAdd ==
    \A i \in DOMAIN items : \A search \in ReplaceArgs : \A replace \in ReplaceArgs :
        match_tags(World, i, search) =>
            LET after == replace_tags(World, i, search, replace).items[i].tags
                rest == Without(items[i].tags, search)
            IN  /\ after = rest \o Without(Clean(replace), rest)
                /\ after = add_tags(remove_tags(World, i, search), i, replace).items[i].tags

\* C18: match_tags(query) is true exactly when every tag of the query is one of
\* the item's tags (so for the empty query), and a call of it leaves the items
\* and the files as they were.
C18_MatchTagsIsPureSubsetTest ==
    \A i \in DOMAIN items : \A query \in TagArgs :
        /\ match_tags(World, i, query) <=> Range(query) \subseteq Range(items[i].tags)
        /\ match_tags_effect(World, i, query) = World

\* C18's case: match_tags has answered true on a dirty, selected item of two tags.
C18_Witness ==
    \E i \in DOMAIN items :
        /\ last.op = "match_tags"
        /\ last.i = i
        /\ last.flag
        /\ Len(items[i].tags) = 2
        /\ items[i].dirty
        /\ items[i].selected

\* The calls handed to for_all and for_selected.
BulkCalls ==
    {[name |-> "select_set", value |-> v] : v \in BOOLEAN}
        \cup {[name |-> "delete", soft |-> b] : b \in BOOLEAN}
        \cup {[name |-> "select_invert"], [name |-> "flush"], [name |-> "reload"]}

RECURSIVE applied_upto(_, _, _, _)
\* The call applied once to each of the first k items (to the selected ones
\* when only_selected), one after the other in scan order.
applied_upto(w, k, call, only_selected) ==
    IF k = 0 THEN w
    ELSE LET w0 == applied_upto(w, k - 1, call, only_selected)
         IN  IF only_selected /\ ~w0.items[k].selected THEN w0 ELSE Apply(w0, k, call)

\* C19: for_all applies the call once to every item in scan order; for_selected
\* applies it once to every selected item in scan order and leaves the fields
\* and the files of every unselected item as they were.
C19_BulkAppliers ==
    \A call \in BulkCalls :
        /\ for_all(World, call).items = applied_upto(World, Len(items), call, FALSE).items
        /\ for_all(World, call).fs = applied_upto(World, Len(items), call, FALSE).fs
        /\ LET w1 == for_selected(World, call)
           IN  /\ w1.items = applied_upto(World, Len(items), call, TRUE).items
               /\ w1.fs = applied_upto(World, Len(items), call, TRUE).fs
               /\ \A k \in DOMAIN items :
                      ~items[k].selected =>
                          /\ w1.items[k] = items[k]
                          /\ w1.fs[items[k].img_file] = fs[items[k].img_file]
                          /\ w1.fs[items[k].tags_file] = fs[items[k].tags_file]

\* C20: select_all leaves every item selected, select_none none, select_invert
\* each with the negation of its flag, so that two select_invert calls restore
\* the selection; none of them changes an item's tags, dirty or deleted.
C20_SelectionOps ==
    LET all == select_all(World)
        none == select_none(World)
        inv == dataset_select_invert(World)
        same_but_selected(w) ==
            /\ Len(w.items) = Len(items)
            /\ \A k \in DOMAIN items :
                   [w.items[k] EXCEPT !.selected = items[k].selected] = items[k]
    IN  /\ \A k \in DOMAIN items :
               /\ all.items[k].selected
               /\ ~none.items[k].selected
               /\ inv.items[k].selected = ~items[k].selected
        /\ dataset_select_invert(inv).items = items
        /\ same_but_selected(all)
        /\ same_but_selected(none)
        /\ same_but_selected(inv)

\* C20's case: select_invert has run on a dataset of three items, one of them
\* marked deleted, and has left some selected and some not.
C20_Witness ==
    /\ last.op = "select_invert"
    /\ last.i = 0
    /\ Len(items) = 3
    /\ \E i, j, k \in DOMAIN items :
           /\ items[i].selected
           /\ ~items[j].selected
           /\ items[k].deleted

\* C24: after a scan no two items have the same sidecar path, so that what one
\* item does to its sidecar leaves the sidecar of every other item as it was.
C24_SidecarPathsUnique ==
    /\ \A i, j \in DOMAIN items : i # j => items[i].tags_file # items[j].tags_file
    /\ \A i, j \in DOMAIN items :
           i # j =>
               \A soft \in BOOLEAN :
                   delete(World, i, soft).fs[items[j].tags_file] = fs[items[j].tags_file]

\* C25: a clean item's sidecar parses to the item's tags, after any sequence of
\* reload, flush and tag mutators (nothing but the item writes the sidecar).
C25_CleanItemMatchesSidecar ==
    \A i \in DOMAIN items :
        ~items[i].dirty => split_tags(read_text(World, items[i].tags_file)) = items[i].tags

\* C27: a delete(soft=True) that raises leaves the item as it was, deleted
\* unchanged and neither file renamed; so an item marked deleted has neither
\* its image nor its sidecar at its path any more.
C27_FailedSoftDeleteChangesNothing ==
    \A i \in DOMAIN items :
        LET w1 == delete(World, i, TRUE)
        IN  /\ w1.exc => /\ w1.items[i].deleted = items[i].deleted
                         /\ w1.fs = fs
            /\ items[i].deleted => /\ ~exists(World, items[i].img_file)
                                   /\ ~exists(World, items[i].tags_file)

\* C21: while autotag is in progress, from the unlinking of the sidecars until
\* its flush has returned, no other handler runs: the operation that ran last
\* is autotag itself, waiting for the tagger.
C21_NothingRunsDuringAutotag ==
    ui.autotag = "waiting" => last.op = "autotag" /\ last.branch = "awaiting"

\* C22: when autotag has completed, the items are those of a fresh scan of the
\* directory, and for every item no tag is a blacklist tag, no tag of more than
\* 3 characters holds an underscore, the item is clean and its sidecar parses
\* to its tags.
C22_AutotagLeavesCleanTags ==
    (last.op = "autotag" /\ last.branch = "complete") =>
        /\ ~last.raised
        /\ {items[i].img_file : i \in DOMAIN items} = ImagesOnDisk
        /\ Len(items) = Cardinality(ImagesOnDisk)
        /\ \A i \in DOMAIN items :
               /\ \A k \in DOMAIN items[i].tags :
                      /\ items[i].tags[k] \notin Range(ui.blacklist)
                      /\ Len(items[i].tags[k]) > 3 => "_" \notin Range(items[i].tags[k])
               /\ ~items[i].dirty /\ ~items[i].selected /\ ~items[i].deleted
               /\ exists(World, items[i].tags_file)
               /\ split_tags(read_text(World, items[i].tags_file)) = items[i].tags

\* An autotag has completed on two images with "a_b" blacklisted: one item is
\* left with the tag "ab c" alone, the other with "ab c" made of "ab_c".
C22_Witness ==
    /\ last.op = "autotag" /\ last.branch = "complete"
    /\ ui.blacklist = <<<<"a", "_", "b">>>>
    /\ Len(items) = 2
    /\ \A i \in DOMAIN items :
           /\ items[i].tags = <<<<"a", "b", " ", "c">>>>
           /\ read_text(World, items[i].tags_file) = <<"a", "b", " ", "c">>

\* C23: selected_cnt is the number of selected items in every state of a loaded
\* UIDataset, and the assertion of the "Remove images" dialog never fails.
C23_SelectedCntCountsSelection ==
    /\ ui.loaded => ui.selected_cnt = Len(get_selection(UIWorld))
    /\ last.op = "_ask_remove_images" => last.branch # "assertion failed"

\* C26: a click on "Save to disk" flushes the dataset loaded last and no other:
\* the handlers of the datasets loaded earlier write no file and flush no item.
C26_SaveFlushesOnlyTheLastLoaded ==
    LET r == save_earlier(fs, ui.earlier, 1)
    IN  r.fs = fs /\ r.earlier = ui.earlier

=============================================================================
